---- MODULE Spec2Model ----
(***************************************************************************)
(* Cron state reconciliation of the dashboard: the sync script             *)
(* (scripts/sync-cron-runs.ts) and the cron API routes, as clients of the  *)
(* cron_jobs / cron_runs tables; the agent routes (wake, report, PATCH)    *)
(* and the system audit, as clients of agents, tasks, task_history and     *)
(* agent_memory.  Every awaited store call is one atomic step; a store     *)
(* call returns a result, returns an error, or throws.                     *)
(***************************************************************************)
EXTENDS Integers, Sequences, FiniteSets, TLC

VARIABLES
    cron_jobs,   \* table cron_jobs: a set of rows
    cron_runs,   \* table cron_runs: rows in insertion order
    nextId,      \* next store-assigned cron_jobs.id
    now,         \* the clock: it advances when an invocation starts
    gateway,     \* the job records the Gateway and the callers can supply
    pc,          \* per invocation: position in the handler
    kind,        \* per invocation: which handler runs
    dryRun,      \* per invocation: --dry-run
    n,           \* per invocation: length of the input batch
    idx,         \* per invocation: jobs of the batch already finished
    job,         \* per invocation: the batch element being processed
    results,     \* per invocation: the counters of the handler
    existingRun, \* per invocation: outcome of the last run-existence query
    existingJob, \* per invocation: outcome of the last job-existence query
    runError,    \* per invocation: the store's answer to the last run insert
    jobError,    \* per invocation: the store's answer to the last job write
    input,       \* per invocation: what the invocation was given
    exitCode,    \* per invocation: process exit code / HTTP status
    agents,      \* table agents: a set of rows
    tasks,       \* table tasks: a set of rows
    task_history,  \* table task_history: rows in insertion order
    agent_memory,  \* table agent_memory: rows in insertion order
    request,     \* per invocation: the body of an agent request
    cronRunLogged, \* per invocation: cronRunLogged of the report's answer
    audit        \* the audit in progress: what it saw and what it reports

vars == <<cron_jobs, cron_runs, nextId, now, gateway, pc, kind, dryRun, n, idx, job,
          results, existingRun, existingJob, runError,
          jobError, input, exitCode,
          agents, tasks, task_history, agent_memory, request, cronRunLogged, audit>>

\* The tables of the agent routes, and all that the cron handlers leave alone
agentTables == <<agents, tasks, task_history, agent_memory>>
agentVars == <<agentTables, request, cronRunLogged, audit>>

----------------------------------------------------------------------------
\* Bounds of the model

\* The clock stops at MaxClock; an invocation over len jobs takes
\* Max(1, len) ticks, so MaxClock bounds the jobs processed in a behaviour.
MaxClock == 3

Procs == {1, 2}

\* Inputs the Gateway can supply
JobIds == {"J1", "J2"}
RunTimesMs == {0, 1, 2}                     \* 0: no lastRunAtMs
GatewayStatuses == {"undefined", "ok", "error", "running", "timeout", "garbage"}

NULL == "NULL"

\* The longest result text the report route stores
MaxSummary == 500

\* Lengths of the result text of a reported run; 0: none
SummaryLengths == {0, MaxSummary, MaxSummary + 1}

\* state.lastError accompanies an error status; state.consecutiveErrors is
\* the Gateway's own count.
JobsOf(ids, times, statuses) ==
    { [id |-> i, lastRunAtMs |-> t, lastStatus |-> s,
       lastDurationMs |-> IF s \in {"ok", "error", "timeout"} THEN 500 ELSE 0,
       lastError |-> IF s = "error" THEN "boom" ELSE "",
       consecutiveErrors |-> IF s = "error" THEN 1 ELSE 0,
       delivery |-> "", resultSummary |-> 0] :
        i \in ids, t \in times, s \in statuses }

\* The same jobs without and with a delivery configuration
WithDelivery(jobs) ==
    { [j EXCEPT !.delivery = d] : j \in jobs, d \in {"", "announce"} }

\* Two jobs, two runs each
GatewayJobs == JobsOf(JobIds, RunTimesMs, {"ok", "error"})
\* Two jobs that ran at the same time
OverlapJobs == JobsOf(JobIds, {1}, {"ok", "error"})
\* Jobs with and without a last run, ok and failed
WriteJobs == JobsOf(JobIds, {0, 1}, {"ok"}) \cup JobsOf(JobIds, {1}, {"error"})
\* One job, with and without a last run and a delivery configuration
DeliveryJobs == WithDelivery(JobsOf({"J1"}, {0, 1}, {"ok"}))
\* The same jobs reported as runs, with result texts of every length
WithSummary(jobs) ==
    { [j EXCEPT !.resultSummary = len] : j \in jobs, len \in SummaryLengths }

\* One job, with and without a last run and a result text
SummaryJobs == WithSummary(JobsOf({"J1"}, RunTimesMs, {"ok"}))
\* Two jobs, with and without a last run, ok and failed
HistoryJobs == JobsOf(JobIds, {0, 1}, {"ok", "error"})
\* One job that ran three times, or never
RecoveryJobs ==
    JobsOf({"J1"}, {1, 2, 3}, {"ok", "error"}) \cup JobsOf({"J1"}, {0}, {"ok"})
\* One job, every status
StatusJobs == JobsOf({"J1"}, {0, 1}, GatewayStatuses)

NoJob == [id |-> "", lastRunAtMs |-> 0, lastStatus |-> "undefined",
          lastDurationMs |-> 0, lastError |-> "", consecutiveErrors |-> 0,
          delivery |-> "", resultSummary |-> 0]

StoreOutcomes == {"ok", "error", "throw"}

\* The agents and the tasks that requests can name
AgentIds == {"A1", "A2"}
TaskIds == {"T1"}

\* The body of an agent request; "" and 0: the field is absent, summary is
\* given by the word it holds and by its length
NoRequest == [agentId |-> "", agentName |-> "", status |-> "",
              summary |-> "undefined", summaryLen |-> 0, cronStartedAt |-> 0,
              tasksCompleted |-> <<>>, tasksStarted |-> <<>>]

\* Bodies of POST wake, with and without each required field
WakeRequests ==
    { [NoRequest EXCEPT !.agentId = a, !.agentName = nm] :
        a \in {"A1", ""}, nm \in {"", "Pulse"} }

\* Bodies of PATCH /api/agents, with and without each required field, with
\* valid statuses and one that is not
PatchRequests ==
    { [NoRequest EXCEPT !.agentId = a, !.status = st] :
        a \in {"A1", ""}, st \in {"", "offline", "error", "busy"} }

\* Bodies of POST /api/agents/report
ReportRequestsOf(ids, summaries, starts, lists) ==
    { [NoRequest EXCEPT !.agentId = a, !.summary = sm,
                        !.summaryLen = IF sm = "undefined" THEN 0 ELSE MaxSummary + 1,
                        !.cronStartedAt = st,
                        !.tasksCompleted = done, !.tasksStarted = started] :
        a \in ids, sm \in summaries, st \in starts, done \in lists, started \in lists }

\* Reports with and without an agent, with and without task lists
TaskReports == ReportRequestsOf({"A1", ""}, {"done"}, {0}, {<<>>, <<"T1">>})
\* Reports of the agent with a cron job and of one without, every summary
CronReports ==
    ReportRequestsOf(AgentIds, {"undefined", "done", "error", "timeout"},
                     {0, 1}, {<<>>})
\* Reports that only say the agent is done
PlainReports == ReportRequestsOf(AgentIds, {"done"}, {0}, {<<>>})

\* What an audit has found so far
NoAudit == [integrity |-> "OK", issues |-> {}]

----------------------------------------------------------------------------
\* Pure helpers of the script

msToIso(ms) == "1970-01-01T00:00:00.00" \o ToString(ms) \o "Z"

\* mapStatus without its timeout case
mapStatus_NoTimeout(status) ==
    CASE status = "ok" -> "ok"
      [] status = "error" -> "error"
      [] status = "running" -> "running"
      [] OTHER -> "pending"

mapStatus(status) ==
    CASE status = "ok" -> "ok"
      [] status = "error" -> "error"
      [] status = "running" -> "running"
      [] status = "timeout" -> "timeout"
      [] OTHER -> "pending"

\* x || null: a number column holds NULLINT for null, a text column NULL
NULLINT == 0 - 1
NumOrNull(x) == IF x = 0 THEN NULLINT ELSE x
StrOrNull(x) == IF x = "" \/ x = "undefined" THEN NULL ELSE x

\* { <column>: x } in the body of a store call: JSON.stringify leaves a
\* column out whose value is undefined
Optional(column, x) ==
    IF x = "" \/ x = "undefined"
    THEN [c \in {} |-> NULL]
    ELSE [c \in {column} |-> x]

\* The counters of the handlers; logged counts the console.error calls
ZeroResults == [jobsUpdated |-> 0, runsCreated |-> 0, skipped |-> 0,
                errors |-> 0, synced |-> 0, created |-> 0, updated |-> 0,
                logged |-> 0]

\* A counter that counts every job twice
Bump_Twice(r, f) == [r EXCEPT ![f] = @ + 2]

\* results.<f>++
Bump(r, f) == [r EXCEPT ![f] = @ + 1]

----------------------------------------------------------------------------
\* The store (tables cron_jobs and cron_runs)

\* Column defaults of a new cron_jobs row
JobDefaults == [id |-> NULL, gateway_id |-> NULL, last_run_at |-> NULL,
                last_status |-> NULL, last_duration_ms |-> NULLINT,
                last_error |-> NULL, consecutive_errors |-> 0,
                delivery |-> NULL, updated_at |-> 0]

\* A row with the given columns written, the others kept
Merge(row, cols) ==
    [f \in DOMAIN row |-> IF f \in DOMAIN cols THEN cols[f] ELSE row[f]]

\* An upsert that never meets the conflict: a plain insert
UpsertById_InsertOnly(table, cols) == table \cup { Merge(JobDefaults, cols) }

\* INSERT ... ON CONFLICT (id) DO UPDATE SET <the given columns>
UpsertById(table, cols) ==
    IF \E r \in table : r.id = cols.id
    THEN { IF r.id = cols.id THEN Merge(r, cols) ELSE r : r \in table }
    ELSE table \cup { Merge(JobDefaults, cols) }

\* An update that keeps only the rows it touched
UpdateWhere_Only(table, col, val, cols) ==
    { Merge(r, cols) : r \in { r2 \in table : r2[col] = val } }

\* UPDATE cron_jobs SET <the given columns> WHERE <col> = <val>
UpdateWhere(table, col, val, cols) ==
    { IF r[col] = val THEN Merge(r, cols) ELSE r : r \in table }

\* select('id').eq(<col>, <val>).single() on cron_jobs
SingleJob(table, col, val) ==
    IF Cardinality({ r \in table : r[col] = val }) = 1 THEN "found" ELSE "null"

\* Whether the store accepts a new cron_jobs row: id is the key the upserts
\* conflict on, gateway_id is UNIQUE (nulls apart)
JobInsertAccepted(table, row) ==
    /\ \A r \in table : r.id # row.id
    /\ row.gateway_id # NULL => \A r \in table : r.gateway_id # row.gateway_id

\* The id the store gives a cron_jobs row inserted without one
StoreAssignedId(k) == "auto-" \o ToString(k)

\* supabase.rpc('increment_consecutive_errors', ..) not awaited: a query
\* builder object, which is no number; it is kept apart from every count
RpcBuilder == 0 - 2

\* Whether the store accepts the written columns: consecutive_errors is a
\* number column
ColumnsAccepted(cols) == cols.consecutive_errors # RpcBuilder

\* cron_runs rows of one (job_id, started_at) pair
RunsOf(runs, jobId, startedAt) ==
    { i \in DOMAIN runs : runs[i].job_id = jobId /\ runs[i].started_at = startedAt }

\* select('id').eq('job_id', ..).eq('started_at', ..).single(): data is a
\* row when exactly one row matches and null otherwise
SingleRun(runs, jobId, startedAt) ==
    IF Cardinality(RunsOf(runs, jobId, startedAt)) = 1 THEN "found" ELSE "null"

\* A cron_runs table without the key on (job_id, started_at)
RunInsertAccepted_NoKey(runs, row) == TRUE

\* A cron_runs table whose key takes the status in as well
RunInsertAccepted_WithStatus(runs, row) ==
    \A i \in RunsOf(runs, row.job_id, row.started_at) : runs[i].status # row.status

\* Whether the store accepts a new cron_runs row: one row per
\* (job_id, started_at)
RunInsertAccepted(runs, row) == RunsOf(runs, row.job_id, row.started_at) = {}

\* The error of an insert: null, the store's refusal, a failure, an exception
InsertAnswer(o, accepted) ==
    CASE o = "throw" -> "thrown"
      [] o = "error" -> "failed"
      [] o = "ok" /\ ~accepted -> "duplicate key"
      [] OTHER -> "null"

----------------------------------------------------------------------------
\* Control of one invocation

Ticks(len) == IF len = 0 THEN 1 ELSE len

AllIdle == \A q \in Procs : pc[q] = "idle"

ExitOk(k) == IF k = "script" THEN "exit 0" ELSE "200"

\* The current batch element is finished: on to the next, or return
Advance(p) ==
    /\ job' = [job EXCEPT ![p] = NoJob]
    /\ idx' = [idx EXCEPT ![p] = @ + 1]
    /\ pc' = [pc EXCEPT ![p] = IF idx[p] + 1 >= n[p] THEN "done" ELSE "loop"]
    /\ exitCode' = [exitCode EXCEPT ![p] =
                        IF idx[p] + 1 >= n[p] THEN ExitOk(kind[p]) ELSE @]

\* A handler that moves on in the batch while element j is still in flight
Goto_NextJob(p, l, j) ==
    /\ job' = [job EXCEPT ![p] = j]
    /\ pc' = [pc EXCEPT ![p] = l]
    /\ idx' = [idx EXCEPT ![p] = @ + 1]
    /\ UNCHANGED exitCode

\* The handler goes on with batch element j at label l
Goto(p, l, j) ==
    /\ job' = [job EXCEPT ![p] = j]
    /\ pc' = [pc EXCEPT ![p] = l]
    /\ UNCHANGED <<idx, exitCode>>

\* The handler returns at once with the given code
Abort(p, code) ==
    /\ job' = [job EXCEPT ![p] = NoJob]
    /\ pc' = [pc EXCEPT ![p] = "done"]
    /\ exitCode' = [exitCode EXCEPT ![p] = code]
    /\ UNCHANGED idx

\* Handler k starts on a batch of len jobs
Start(p, k, d, len) ==
    /\ pc[p] = "idle"
    /\ now + Ticks(len) <= MaxClock
    /\ now' = now + Ticks(len)
    /\ kind' = [kind EXCEPT ![p] = k]
    /\ dryRun' = [dryRun EXCEPT ![p] = d]
    /\ n' = [n EXCEPT ![p] = len]
    /\ idx' = [idx EXCEPT ![p] = 0]
    /\ results' = [results EXCEPT ![p] = ZeroResults]
    /\ pc' = [pc EXCEPT ![p] = IF len = 0 THEN "done" ELSE "loop"]
    /\ job' = [job EXCEPT ![p] = NoJob]
    /\ existingRun' = [existingRun EXCEPT ![p] = "none"]
    /\ existingJob' = [existingJob EXCEPT ![p] = "none"]
    /\ runError' = [runError EXCEPT ![p] = "none"]
    /\ jobError' = [jobError EXCEPT ![p] = "none"]
    /\ input' = [input EXCEPT ![p] = "batch"]
    /\ exitCode' = [exitCode EXCEPT ![p] = IF len = 0 THEN ExitOk(k) ELSE "none"]
    /\ UNCHANGED <<cron_jobs, cron_runs, nextId, gateway, agentVars>>

\* A handler that ends as if nothing were wrong
FatalCode_Ok(k) == IF k = "script" THEN "exit 0" ELSE "200"

\* process.exit(1) of the script, status 400 of a route
FatalCode(k) == IF k = "script" THEN "exit 1" ELSE "400"

\* Handler k is started without what it needs and ends at once
Reject(p, k, what) ==
    /\ pc[p] = "idle"
    /\ now + 1 <= MaxClock
    /\ now' = now + 1
    /\ kind' = [kind EXCEPT ![p] = k]
    /\ input' = [input EXCEPT ![p] = what]
    /\ pc' = [pc EXCEPT ![p] = "done"]
    /\ exitCode' = [exitCode EXCEPT ![p] = FatalCode(k)]
    /\ dryRun' = [dryRun EXCEPT ![p] = FALSE]
    /\ n' = [n EXCEPT ![p] = 0]
    /\ idx' = [idx EXCEPT ![p] = 0]
    /\ results' = [results EXCEPT ![p] = ZeroResults]
    /\ job' = [job EXCEPT ![p] = NoJob]
    /\ existingRun' = [existingRun EXCEPT ![p] = "none"]
    /\ existingJob' = [existingJob EXCEPT ![p] = "none"]
    /\ runError' = [runError EXCEPT ![p] = "none"]
    /\ jobError' = [jobError EXCEPT ![p] = "none"]
    /\ UNCHANGED <<cron_jobs, cron_runs, nextId, gateway, agentVars>>

\* The invocation is over and its slot is free again
Return(p) ==
    /\ pc[p] = "done"
    /\ pc' = [pc EXCEPT ![p] = "idle"]
    /\ kind' = [kind EXCEPT ![p] = "none"]
    /\ dryRun' = [dryRun EXCEPT ![p] = FALSE]
    /\ n' = [n EXCEPT ![p] = 0]
    /\ idx' = [idx EXCEPT ![p] = 0]
    /\ job' = [job EXCEPT ![p] = NoJob]
    /\ results' = [results EXCEPT ![p] = ZeroResults]
    /\ existingRun' = [existingRun EXCEPT ![p] = "none"]
    /\ existingJob' = [existingJob EXCEPT ![p] = "none"]
    /\ runError' = [runError EXCEPT ![p] = "none"]
    /\ jobError' = [jobError EXCEPT ![p] = "none"]
    /\ input' = [input EXCEPT ![p] = "none"]
    /\ exitCode' = [exitCode EXCEPT ![p] = "none"]
    /\ request' = [request EXCEPT ![p] = NoRequest]
    /\ cronRunLogged' = [cronRunLogged EXCEPT ![p] = FALSE]
    /\ audit' = [audit EXCEPT ![p] = NoAudit]
    /\ UNCHANGED <<cron_jobs, cron_runs, nextId, now, gateway, agentTables>>

----------------------------------------------------------------------------
\* scripts/sync-cron-runs.ts

\* The columns of the job upsert
ScriptJobRow(j, t) ==
    [id |-> j.id,
     last_run_at |-> IF j.lastRunAtMs # 0 THEN msToIso(j.lastRunAtMs) ELSE NULL,
     last_status |-> mapStatus(j.lastStatus),
     last_duration_ms |-> NumOrNull(j.lastDurationMs),
     last_error |-> StrOrNull(j.lastError),
     consecutive_errors |-> j.consecutiveErrors,
     updated_at |-> t] @@ Optional("delivery", j.delivery)

\* A run row that loses the job's status and duration
ScriptRunRow_Blank(j) ==
    [job_id |-> j.id,
     started_at |-> msToIso(j.lastRunAtMs),
     status |-> "pending",
     duration_ms |-> NULLINT,
     error_message |-> NULL,
     result_summary |-> NULLINT]

\* The row of the run insert; result_summary holds the length of the text
ScriptRunRow(j) ==
    [job_id |-> j.id,
     started_at |-> msToIso(j.lastRunAtMs),
     status |-> mapStatus(j.lastStatus),
     duration_ms |-> NumOrNull(j.lastDurationMs),
     error_message |-> StrOrNull(j.lastError),
     result_summary |-> NULLINT]

\* cron_jobs after the job upsert of job j at time t
ScriptJobUpsert(table, j, t) == UpsertById(table, ScriptJobRow(j, t))

\* syncCronRuns(dryRun)
ScriptStart(p, d, len) == Start(p, "script", d, len)

\* NEXT_PUBLIC_SUPABASE_URL or SUPABASE_SERVICE_ROLE_KEY is not set
ScriptNoCredentials(p) == Reject(p, "script", "no credentials")

\* The Gateway's jobs.json does not exist
ScriptNoGatewayFile(p) == Reject(p, "script", "no gateway file")

\* A skip that stores the job it skips
ScriptSkip_Stored(p) ==
    /\ pc[p] = "loop" /\ kind[p] = "script"
    /\ \E j \in gateway :
        /\ j.lastRunAtMs = 0
        /\ cron_jobs' = ScriptJobUpsert(cron_jobs, j, now)
    /\ results' = [results EXCEPT ![p] = Bump(@, "skipped")]
    /\ Advance(p)
    /\ UNCHANGED <<cron_runs, nextId, now, gateway, agentVars, kind, input, dryRun, n, jobError,
                   existingRun, existingJob, runError>>

\* A job without state.lastRunAtMs: counted as skipped
ScriptSkip(p) ==
    /\ pc[p] = "loop" /\ kind[p] = "script"
    /\ \E j \in gateway : j.lastRunAtMs = 0
    /\ results' = [results EXCEPT ![p] = Bump(@, "skipped")]
    /\ Advance(p)
    /\ UNCHANGED <<cron_jobs, cron_runs, nextId, now, gateway, agentVars, kind, input, dryRun, n, jobError,
                   existingRun, existingJob, runError>>

\* A dry run that upserts the job it prints
ScriptDryRun_Writes(p) ==
    /\ pc[p] = "loop" /\ kind[p] = "script" /\ dryRun[p]
    /\ \E j \in gateway :
        /\ j.lastRunAtMs # 0
        /\ cron_jobs' = ScriptJobUpsert(cron_jobs, j, now)
    /\ Advance(p)
    /\ UNCHANGED <<cron_runs, nextId, now, gateway, agentVars, kind, input, dryRun, n, jobError,
                   results, existingRun, existingJob, runError>>

\* --dry-run: a job with a run is only printed
ScriptDryRun(p) ==
    /\ pc[p] = "loop" /\ kind[p] = "script" /\ dryRun[p]
    /\ \E j \in gateway : j.lastRunAtMs # 0
    /\ Advance(p)
    /\ UNCHANGED <<cron_jobs, cron_runs, nextId, now, gateway, agentVars, kind, input, dryRun, n, jobError,
                   results, existingRun, existingJob, runError>>

\* After the upsert: on with the job's run when jobError is null, else on
\* to the next job
AfterUpsert_Ignored(answer) == "check"

AfterUpsert(answer) == IF answer = "null" THEN "check" ELSE "next"

\* 1. Upsert the cron job definition
ScriptUpsert(p) ==
    /\ pc[p] = "loop" /\ kind[p] = "script" /\ ~dryRun[p]
    /\ \E j \in gateway, o \in StoreOutcomes :
        LET answer == InsertAnswer(o, TRUE)
        IN
        /\ j.lastRunAtMs # 0
        /\ jobError' = [jobError EXCEPT ![p] = answer]
        /\ cron_jobs' = IF answer = "null"
                        THEN ScriptJobUpsert(cron_jobs, j, now) ELSE cron_jobs
        /\ results' = [results EXCEPT ![p] =
                          IF answer = "null" THEN Bump(@, "jobsUpdated")
                          ELSE Bump(Bump(@, "errors"), "logged")]
        /\ IF AfterUpsert(answer) = "check" THEN Goto(p, "check", j) ELSE Advance(p)
    /\ existingRun' = [existingRun EXCEPT ![p] = "none"]
    /\ runError' = [runError EXCEPT ![p] = "none"]
    /\ UNCHANGED <<cron_runs, nextId, now, gateway, agentVars, kind, input, dryRun, n, existingJob>>

\* 2. Check if this run already exists (the query's error is not read)
ScriptCheck(p) ==
    /\ pc[p] = "check" /\ kind[p] = "script"
    /\ \E o \in StoreOutcomes :
        CASE o = "ok" ->
                LET data == SingleRun(cron_runs, job[p].id, msToIso(job[p].lastRunAtMs))
                IN  /\ existingRun' = [existingRun EXCEPT ![p] = data]
                    /\ results' = results
                    /\ IF data = "found"
                       THEN Advance(p)
                       ELSE Goto(p, "insert", job[p])
          [] o = "error" ->
                /\ existingRun' = [existingRun EXCEPT ![p] = "failed"]
                /\ results' = results
                /\ Goto(p, "insert", job[p])
          [] o = "throw" ->
                /\ existingRun' = [existingRun EXCEPT ![p] = "thrown"]
                /\ results' = [results EXCEPT ![p] = Bump(Bump(@, "errors"), "logged")]
                /\ Advance(p)
    /\ UNCHANGED <<cron_jobs, cron_runs, nextId, now, gateway, agentVars, kind, input, dryRun, n, jobError,
                   existingJob, runError>>

\* 3. Create the run record
ScriptInsert(p) ==
    /\ pc[p] = "insert" /\ kind[p] = "script"
    /\ \E o \in StoreOutcomes :
        LET answer == InsertAnswer(o, RunInsertAccepted(cron_runs, ScriptRunRow(job[p])))
        IN  /\ runError' = [runError EXCEPT ![p] = answer]
            /\ IF answer = "null"
               THEN /\ cron_runs' = Append(cron_runs, ScriptRunRow(job[p]))
                    /\ results' = [results EXCEPT ![p] = Bump(@, "runsCreated")]
               ELSE /\ cron_runs' = cron_runs
                    /\ results' = [results EXCEPT ![p] = Bump(Bump(@, "errors"), "logged")]
    /\ Advance(p)
    /\ UNCHANGED <<cron_jobs, nextId, now, gateway, agentVars, kind, input, dryRun, n, jobError, existingRun,
                   existingJob>>

----------------------------------------------------------------------------
\* POST /api/cron/jobs

\* The columns of the job upsert: the Gateway's status is written as it is
JobsRouteRow(j, t) ==
    [id |-> j.id,
     last_run_at |-> IF j.lastRunAtMs # 0 THEN msToIso(j.lastRunAtMs) ELSE NULL,
     last_status |-> StrOrNull(j.lastStatus),
     last_duration_ms |-> NumOrNull(j.lastDurationMs),
     last_error |-> StrOrNull(j.lastError),
     consecutive_errors |-> j.consecutiveErrors,
     delivery |-> StrOrNull(j.delivery),
     updated_at |-> t]

\* cron_jobs after the job upsert of job j at time t
JobsRouteUpsert(table, j, t) == UpsertById(table, JobsRouteRow(j, t))

JobsStart(p, len) == Start(p, "jobs", FALSE, len)

\* The body has no jobs array
JobsNoArray(p) == Reject(p, "jobs", "no jobs array")

\* One turn of the loop: the upsert of one job.  The try/catch is around
\* the whole loop, so a throw ends the request with 500.
JobsUpsert(p) ==
    /\ pc[p] = "loop" /\ kind[p] = "jobs"
    /\ \E j \in gateway, o \in StoreOutcomes :
        /\ jobError' = [jobError EXCEPT ![p] = InsertAnswer(o, TRUE)]
        /\ CASE o = "ok" ->
                /\ cron_jobs' = JobsRouteUpsert(cron_jobs, j, now)
                /\ results' = [results EXCEPT ![p] = Bump(@, "synced")]
                /\ Advance(p)
          [] o = "error" ->
                /\ cron_jobs' = cron_jobs
                /\ results' = [results EXCEPT ![p] = Bump(Bump(@, "errors"), "logged")]
                /\ Advance(p)
          [] o = "throw" ->
                /\ cron_jobs' = cron_jobs
                /\ results' = [results EXCEPT ![p] = Bump(@, "logged")]
                /\ Abort(p, "500")
    /\ UNCHANGED <<cron_runs, nextId, now, gateway, agentVars, kind, input, dryRun, n, existingRun,
                   existingJob, runError>>

----------------------------------------------------------------------------
\* POST /api/cron/sync

\* jobData: the job is keyed by gateway_id, the status is written as it is
SyncJobData(j, t) ==
    [gateway_id |-> j.id,
     last_run_at |-> IF j.lastRunAtMs # 0 THEN msToIso(j.lastRunAtMs) ELSE NULL,
     last_status |-> StrOrNull(j.lastStatus),
     last_duration_ms |-> NumOrNull(j.lastDurationMs),
     last_error |-> StrOrNull(j.lastError),
     consecutive_errors |-> j.consecutiveErrors,
     updated_at |-> t] @@ Optional("delivery", j.delivery)

\* The row of a new job: jobData with the id the store assigns
SyncNewRow(k, j, t) ==
    Merge(JobDefaults, SyncJobData(j, t) @@ [id |-> StoreAssignedId(k)])

\* cron_jobs after the write of job j at time t, the store call returning
\* without error: an update when the lookup gave a row, else an insert
SyncRouteWrite(table, k, found, j, t) ==
    IF found = "found"
    THEN UpdateWhere(table, "gateway_id", j.id, SyncJobData(j, t))
    ELSE IF JobInsertAccepted(table, SyncNewRow(k, j, t))
         THEN table \cup {SyncNewRow(k, j, t)}
         ELSE table

SyncStart(p, len) == Start(p, "sync", FALSE, len)

\* The body has no jobs array
SyncNoArray(p) == Reject(p, "sync", "no jobs array")

\* Check if job exists (the query's error is not read)
SyncCheck(p) ==
    /\ pc[p] = "loop" /\ kind[p] = "sync"
    /\ \E j \in gateway, o \in StoreOutcomes :
        CASE o = "ok" ->
                /\ existingJob' = [existingJob EXCEPT ![p] =
                                      SingleJob(cron_jobs, "gateway_id", j.id)]
                /\ results' = results
                /\ Goto(p, "write", j)
          [] o = "error" ->
                /\ existingJob' = [existingJob EXCEPT ![p] = "failed"]
                /\ results' = results
                /\ Goto(p, "write", j)
          [] o = "throw" ->
                /\ existingJob' = [existingJob EXCEPT ![p] = "thrown"]
                /\ results' = [results EXCEPT ![p] = Bump(@, "logged")]
                /\ Abort(p, "500")
    /\ UNCHANGED <<cron_jobs, cron_runs, nextId, now, gateway, agentVars, kind, input, dryRun, n,
                   jobError, existingRun, runError>>

\* Update existing job / create new job; a store error is not counted
SyncWrite(p) ==
    /\ pc[p] = "write" /\ kind[p] = "sync"
    /\ \E o \in StoreOutcomes :
        LET found == existingJob[p] = "found"
            accepted == JobInsertAccepted(cron_jobs, SyncNewRow(nextId, job[p], now))
            answer == InsertAnswer(o, found \/ accepted)
        IN
        /\ jobError' = [jobError EXCEPT ![p] = answer]
        /\ CASE answer = "thrown" ->
                /\ UNCHANGED <<cron_jobs, nextId>>
                /\ results' = [results EXCEPT ![p] = Bump(@, "logged")]
                /\ Abort(p, "500")
          [] answer \in {"failed", "duplicate key"} ->
                /\ UNCHANGED <<cron_jobs, nextId, results>>
                /\ Advance(p)
          [] answer = "null" /\ found ->
                /\ cron_jobs' = SyncRouteWrite(cron_jobs, nextId, existingJob[p], job[p], now)
                /\ nextId' = nextId
                /\ results' = [results EXCEPT ![p] = Bump(Bump(@, "updated"), "synced")]
                /\ Advance(p)
          [] answer = "null" /\ ~found ->
                /\ cron_jobs' = SyncRouteWrite(cron_jobs, nextId, existingJob[p], job[p], now)
                /\ nextId' = nextId + 1
                /\ results' = [results EXCEPT ![p] = Bump(Bump(@, "created"), "synced")]
                /\ Advance(p)
    /\ UNCHANGED <<cron_runs, now, gateway, agentVars, kind, input, dryRun, n, existingRun,
                   existingJob, runError>>

----------------------------------------------------------------------------
\* POST /api/cron/runs: one run reported in the request body, here the
\* record j (jobId = j.id, startedAt = msToIso(j.lastRunAtMs),
\* status = j.lastStatus, durationMs, errorMessage)


\* The row of the job created when the job lookup gave nothing
RunsNewJobRow(j) ==
    [id |-> j.id,
     last_run_at |-> msToIso(j.lastRunAtMs),
     last_status |-> j.lastStatus,
     last_duration_ms |-> NumOrNull(j.lastDurationMs),
     last_error |-> StrOrNull(j.lastError),
     consecutive_errors |-> IF j.lastStatus = "error" THEN 1 ELSE 0]

\* The row of the run insert
RunsRunRow(j) ==
    [job_id |-> j.id,
     started_at |-> msToIso(j.lastRunAtMs),
     status |-> j.lastStatus,
     duration_ms |-> NumOrNull(j.lastDurationMs),
     error_message |-> StrOrNull(j.lastError),
     result_summary |-> NumOrNull(j.resultSummary)]

\* The columns of the job's last run info: for an error status the value
\* of consecutive_errors is the unawaited rpc query builder, not a number
RunsJobUpdate(j, t) ==
    [last_run_at |-> msToIso(j.lastRunAtMs),
     last_status |-> j.lastStatus,
     last_duration_ms |-> NumOrNull(j.lastDurationMs),
     last_error |-> StrOrNull(j.lastError),
     consecutive_errors |-> IF j.lastStatus = "error" THEN RpcBuilder ELSE 0,
     updated_at |-> t]

RunsStart(p) == Start(p, "runs", FALSE, 1)

\* jobId, jobName, startedAt, and status are required
RunsValid(j) == j.id # "" /\ j.lastRunAtMs # 0 /\ StrOrNull(j.lastStatus) # NULL

RunsBadRequest(p) ==
    /\ \E j \in gateway : ~RunsValid(j)
    /\ Reject(p, "runs", "missing field")

\* 1. Ensure the cron job exists in the database
RunsCheckJob(p) ==
    /\ pc[p] = "loop" /\ kind[p] = "runs"
    /\ \E j \in gateway, o \in StoreOutcomes :
        /\ RunsValid(j)
        /\ CASE o = "ok" ->
                  LET data == SingleJob(cron_jobs, "id", j.id)
                  IN  /\ existingJob' = [existingJob EXCEPT ![p] = data]
                      /\ Goto(p, IF data = "found" THEN "insertRun" ELSE "createJob", j)
             [] o = "error" ->
                  /\ existingJob' = [existingJob EXCEPT ![p] = "failed"]
                  /\ Goto(p, "createJob", j)
             [] o = "throw" ->
                  /\ existingJob' = [existingJob EXCEPT ![p] = "failed"]
                  /\ Abort(p, "500")
    /\ UNCHANGED <<cron_jobs, cron_runs, nextId, now, gateway, agentVars, kind, input, dryRun, n, jobError,
                   results, existingRun, runError>>

\* Create the job if it doesn't exist; on an error continue anyway
RunsCreateJob(p) ==
    /\ pc[p] = "createJob" /\ kind[p] = "runs"
    /\ \E o \in StoreOutcomes :
        LET row == Merge(JobDefaults, RunsNewJobRow(job[p]))
        IN
        CASE o = "throw" ->
                /\ cron_jobs' = cron_jobs
                /\ Abort(p, "500")
          [] o = "error" ->
                /\ cron_jobs' = cron_jobs
                /\ Goto(p, "insertRun", job[p])
          [] o = "ok" ->
                /\ cron_jobs' = IF JobInsertAccepted(cron_jobs, row)
                                THEN cron_jobs \cup {row} ELSE cron_jobs
                /\ Goto(p, "insertRun", job[p])
    /\ UNCHANGED <<cron_runs, nextId, now, gateway, agentVars, kind, input, dryRun, n, jobError, results,
                   existingRun, existingJob, runError>>

\* 2. Create the run record
RunsInsertRun(p) ==
    /\ pc[p] = "insertRun" /\ kind[p] = "runs"
    /\ \E o \in StoreOutcomes :
        LET row == RunsRunRow(job[p])
            answer == InsertAnswer(o, RunInsertAccepted(cron_runs, row))
        IN  /\ runError' = [runError EXCEPT ![p] = answer]
            /\ IF answer = "null"
               THEN /\ cron_runs' = Append(cron_runs, row)
                    /\ Goto(p, "updateJob", job[p])
               ELSE /\ cron_runs' = cron_runs
                    /\ Abort(p, "500")
    /\ UNCHANGED <<cron_jobs, nextId, now, gateway, agentVars, kind, input, dryRun, n, jobError, results,
                   existingRun, existingJob>>

\* The error of an update: null, the store's refusal of a value that is no
\* integer, a failure, an exception
UpdateAnswer(o, accepted) ==
    CASE o = "throw" -> "thrown"
      [] o = "error" -> "failed"
      [] o = "ok" /\ ~accepted -> "invalid input"
      [] OTHER -> "null"

\* 3. Update the job's last run info (the result is not read)
RunsUpdateJob(p) ==
    /\ pc[p] = "updateJob" /\ kind[p] = "runs"
    /\ \E o \in StoreOutcomes :
        LET cols == RunsJobUpdate(job[p], now)
        IN
        /\ jobError' = [jobError EXCEPT ![p] = UpdateAnswer(o, ColumnsAccepted(cols))]
        /\ CASE o = "throw" ->
                  /\ cron_jobs' = cron_jobs
                  /\ Abort(p, "500")
             [] o = "error" ->
                  /\ cron_jobs' = cron_jobs
                  /\ Advance(p)
             [] o = "ok" ->
                  /\ cron_jobs' = IF ColumnsAccepted(cols)
                                  THEN UpdateWhere(cron_jobs, "id", job[p].id, cols)
                                  ELSE cron_jobs
                  /\ Advance(p)
    /\ UNCHANGED <<cron_runs, nextId, now, gateway, agentVars, kind, input, dryRun, n, results,
                   existingRun, existingJob, runError>>

----------------------------------------------------------------------------
\* The agent routes: app/api/agents/route.ts (PATCH, POST wake) and
\* app/api/agents/report/route.ts.  Rows keep the columns the handlers
\* decide on; the timestamps they stamp with the current time are left out.

\* The handler goes on at label l
To(p, l) ==
    /\ pc' = [pc EXCEPT ![p] = l]
    /\ exitCode' = exitCode

\* The handler answers with the given status
Respond(p, code) ==
    /\ pc' = [pc EXCEPT ![p] = "done"]
    /\ exitCode' = [exitCode EXCEPT ![p] = code]

\* What an agent request leaves alone of the cron handlers' locals
cronLocals == <<dryRun, n, job, results, existingRun, runError, jobError, input>>

\* Handler k starts on the request body req at label first
AgentStart(p, k, req, first) ==
    /\ pc[p] = "idle"
    /\ now + 1 <= MaxClock
    /\ now' = now + 1
    /\ kind' = [kind EXCEPT ![p] = k]
    /\ request' = [request EXCEPT ![p] = req]
    /\ cronRunLogged' = [cronRunLogged EXCEPT ![p] = FALSE]
    /\ audit' = [audit EXCEPT ![p] = NoAudit]
    /\ idx' = [idx EXCEPT ![p] = 0]
    /\ existingJob' = [existingJob EXCEPT ![p] = "none"]
    /\ To(p, first)
    /\ UNCHANGED <<cron_jobs, cron_runs, nextId, gateway, agentTables, cronLocals>>

\* The request is refused before any store call
BadRequest(p, k, req) ==
    /\ pc[p] = "idle"
    /\ now + 1 <= MaxClock
    /\ now' = now + 1
    /\ kind' = [kind EXCEPT ![p] = k]
    /\ request' = [request EXCEPT ![p] = req]
    /\ cronRunLogged' = [cronRunLogged EXCEPT ![p] = FALSE]
    /\ audit' = [audit EXCEPT ![p] = NoAudit]
    /\ idx' = [idx EXCEPT ![p] = 0]
    /\ existingJob' = [existingJob EXCEPT ![p] = "none"]
    /\ Respond(p, FatalCode(k))
    /\ UNCHANGED <<cron_jobs, cron_runs, nextId, gateway, agentTables, cronLocals>>

\* upsert({id, name, status}, {onConflict: 'id'}) on agents
UpsertAgent(table, row) ==
    IF \E r \in table : r.id = row.id
    THEN { IF r.id = row.id THEN row ELSE r : r \in table }
    ELSE table \cup {row}

\* update({status}).eq('id', id) on agents or tasks
SetStatus(table, id, status) ==
    { IF r.id = id THEN [r EXCEPT !.status = status] ELSE r : r \in table }

\* PATCH /api/agents: validStatuses
validStatuses == {"idle", "working", "offline", "error"}

\* PATCH /api/agents: a PATCH that takes every status
PatchValid_Any(req) == req.agentId # "" /\ req.status # ""

\* PATCH /api/agents: agentId and status are there and the status is valid
PatchValid(req) ==
    /\ req.agentId # "" /\ req.status # ""
    /\ req.status \in validStatuses

PatchBadRequest(p, req) == ~PatchValid(req) /\ BadRequest(p, "patch", req)

PatchStart(p, req) == PatchValid(req) /\ AgentStart(p, "patch", req, "patchUpdate")

\* PATCH /api/agents: update the agent's status
PatchUpdate(p) ==
    /\ pc[p] = "patchUpdate" /\ kind[p] = "patch"
    /\ \E o \in StoreOutcomes :
        IF o = "ok"
        THEN /\ agents' = SetStatus(agents, request[p].agentId, request[p].status)
             /\ Respond(p, "200")
        ELSE /\ agents' = agents
             /\ Respond(p, "500")
    /\ UNCHANGED <<cron_jobs, cron_runs, nextId, now, gateway, kind, idx, existingJob,
                   tasks, task_history, agent_memory, request, cronRunLogged, audit,
                   cronLocals>>

\* POST wake: agentId and agentName are there
WakeValid(req) == req.agentId # "" /\ req.agentName # ""

WakeBadRequest(p, req) == ~WakeValid(req) /\ BadRequest(p, "wake", req)

WakeStart(p, req) == WakeValid(req) /\ AgentStart(p, "wake", req, "wakeAgent")

\* POST wake: the row of the agent upsert
WakeRow(req) ==
    [id |-> req.agentId, name |-> req.agentName, status |-> "working"]

\* POST wake 1. Update agent heartbeat
WakeAgent(p) ==
    /\ pc[p] = "wakeAgent" /\ kind[p] = "wake"
    /\ \E o \in StoreOutcomes :
        IF o = "ok"
        THEN /\ agents' = UpsertAgent(agents, WakeRow(request[p]))
             /\ To(p, "wakeTasks")
        ELSE /\ agents' = agents
             /\ Respond(p, "500")
    /\ UNCHANGED <<cron_jobs, cron_runs, nextId, now, gateway, kind, idx, existingJob,
                   tasks, task_history, agent_memory, request, cronRunLogged, audit,
                   cronLocals>>

\* POST wake 2. Load assigned tasks, 3. Load recent memory: an error is
\* logged, an exception ends the request
WakeLoad(p) ==
    /\ pc[p] \in {"wakeTasks", "wakeMemory"} /\ kind[p] = "wake"
    /\ \E o \in StoreOutcomes :
        IF o = "throw"
        THEN Respond(p, "500")
        ELSE To(p, IF pc[p] = "wakeTasks" THEN "wakeMemory" ELSE "wakeLog")
    /\ UNCHANGED <<cron_jobs, cron_runs, nextId, now, gateway, kind, idx, existingJob,
                   agentTables, request, cronRunLogged, audit, cronLocals>>

\* POST wake 4. Log wake event to task_history (the result is not read)
WakeLog(p) ==
    /\ pc[p] = "wakeLog" /\ kind[p] = "wake"
    /\ \E o \in StoreOutcomes :
        CASE o = "ok" ->
                /\ task_history' = Append(task_history,
                        [task_id |-> NULL, agent_id |-> request[p].agentId,
                         action |-> "agent_wake"])
                /\ Respond(p, "200")
          [] o = "error" ->
                /\ task_history' = task_history
                /\ Respond(p, "200")
          [] o = "throw" ->
                /\ task_history' = task_history
                /\ Respond(p, "500")
    /\ UNCHANGED <<cron_jobs, cron_runs, nextId, now, gateway, kind, idx, existingJob,
                   agents, tasks, agent_memory, request, cronRunLogged, audit,
                   cronLocals>>

\* POST /api/agents/report: agentId is there
ReportValid(req) == req.agentId # ""

ReportBadRequest(p, req) == ~ReportValid(req) /\ BadRequest(p, "report", req)

ReportStart(p, req) == ReportValid(req) /\ AgentStart(p, "report", req, "reportAgent")

\* AGENT_CRON_MAP: the name of the agent's cron job, "" when it has none.
\* A job's name is identified with the id the Gateway gives the job.
AGENT_CRON_MAP(agentId) == IF agentId = "A1" THEN "J1" ELSE ""

\* cron_jobs.name of a stored row: the routes store the Gateway's id in id
\* or in gateway_id
JobName(r) == IF r.gateway_id # NULL THEN r.gateway_id ELSE r.id

\* The task updates of a report: the completed tasks, then the started ones
TaskOps(req) ==
    [i \in 1..Len(req.tasksCompleted) |->
        [task |-> req.tasksCompleted[i], status |-> "done", action |-> "completed"]]
    \o
    [i \in 1..Len(req.tasksStarted) |->
        [task |-> req.tasksStarted[i], status |-> "in_progress", action |-> "started"]]

\* Where the report goes on after k of its task updates
AfterTasks(req, k) ==
    IF k < Len(TaskOps(req)) THEN "reportTask"
    ELSE IF AGENT_CRON_MAP(req.agentId) # "" THEN "reportCronJob"
    ELSE "respond"

\* The report goes on at label l, or answers success when l is "respond"
ReportTo(p, l) == IF l = "respond" THEN Respond(p, "200") ELSE To(p, l)

\* A report that leaves the agent's status as it is
ReportStatus_Kept(table, id) == table

\* report 1. Update agent status to idle
ReportStatus(table, id) == SetStatus(table, id, "idle")

\* report 1. Update agent status to idle (an error is logged)
ReportAgent(p) ==
    /\ pc[p] = "reportAgent" /\ kind[p] = "report"
    /\ \E o \in StoreOutcomes :
        /\ jobError' = [jobError EXCEPT ![p] = InsertAnswer(o, TRUE)]
        /\ CASE o = "ok" ->
                  /\ agents' = ReportStatus(agents, request[p].agentId)
                  /\ To(p, "reportMemory")
             [] o = "error" ->
                  /\ agents' = agents
                  /\ To(p, "reportMemory")
             [] o = "throw" ->
                  /\ agents' = agents
                  /\ Respond(p, "500")
    /\ UNCHANGED <<cron_jobs, cron_runs, nextId, now, gateway, kind, idx, existingJob,
                   tasks, task_history, agent_memory, request, cronRunLogged, audit,
                   dryRun, n, job, results, existingRun, runError, input>>

\* report 2. Save to agent_memory (an error is logged)
ReportMemory(p) ==
    /\ pc[p] = "reportMemory" /\ kind[p] = "report"
    /\ \E o \in StoreOutcomes :
        CASE o = "ok" ->
                /\ agent_memory' = Append(agent_memory,
                        [agent_id |-> request[p].agentId,
                         memory_type |-> "heartbeat_report"])
                /\ To(p, "reportLog")
          [] o = "error" ->
                /\ agent_memory' = agent_memory
                /\ To(p, "reportLog")
          [] o = "throw" ->
                /\ agent_memory' = agent_memory
                /\ Respond(p, "500")
    /\ UNCHANGED <<cron_jobs, cron_runs, nextId, now, gateway, kind, idx, existingJob,
                   agents, tasks, task_history, request, cronRunLogged, audit,
                   cronLocals>>

\* report 3. Log report event (the result is not read)
ReportLog(p) ==
    /\ pc[p] = "reportLog" /\ kind[p] = "report"
    /\ \E o \in StoreOutcomes :
        CASE o = "ok" ->
                /\ task_history' = Append(task_history,
                        [task_id |-> NULL, agent_id |-> request[p].agentId,
                         action |-> "agent_report"])
                /\ ReportTo(p, AfterTasks(request[p], 0))
          [] o = "error" ->
                /\ task_history' = task_history
                /\ ReportTo(p, AfterTasks(request[p], 0))
          [] o = "throw" ->
                /\ task_history' = task_history
                /\ Respond(p, "500")
    /\ UNCHANGED <<cron_jobs, cron_runs, nextId, now, gateway, kind, idx, existingJob,
                   agents, tasks, agent_memory, request, cronRunLogged, audit,
                   cronLocals>>

\* report 4., 5. Update a task that was completed or started (the result is
\* not read)
ReportTask(p) ==
    /\ pc[p] = "reportTask" /\ kind[p] = "report"
    /\ \E o \in StoreOutcomes :
        LET op == TaskOps(request[p])[idx[p] + 1]
        IN  CASE o = "ok" ->
                    /\ tasks' = SetStatus(tasks, op.task, op.status)
                    /\ To(p, "reportTaskLog")
              [] o = "error" ->
                    /\ tasks' = tasks
                    /\ To(p, "reportTaskLog")
              [] o = "throw" ->
                    /\ tasks' = tasks
                    /\ Respond(p, "500")
    /\ UNCHANGED <<cron_jobs, cron_runs, nextId, now, gateway, kind, idx, existingJob,
                   agents, task_history, agent_memory, request, cronRunLogged, audit,
                   cronLocals>>

\* report 4., 5. Log the task's change to task_history (the result is not
\* read)
ReportTaskLog(p) ==
    /\ pc[p] = "reportTaskLog" /\ kind[p] = "report"
    /\ \E o \in StoreOutcomes :
        LET op == TaskOps(request[p])[idx[p] + 1]
        IN  CASE o = "ok" ->
                    /\ task_history' = Append(task_history,
                            [task_id |-> op.task, agent_id |-> request[p].agentId,
                             action |-> op.action])
                    /\ idx' = [idx EXCEPT ![p] = @ + 1]
                    /\ ReportTo(p, AfterTasks(request[p], idx[p] + 1))
              [] o = "error" ->
                    /\ task_history' = task_history
                    /\ idx' = [idx EXCEPT ![p] = @ + 1]
                    /\ ReportTo(p, AfterTasks(request[p], idx[p] + 1))
              [] o = "throw" ->
                    /\ task_history' = task_history
                    /\ idx' = idx
                    /\ Respond(p, "500")
    /\ UNCHANGED <<cron_jobs, cron_runs, nextId, now, gateway, kind, existingJob,
                   agents, tasks, agent_memory, request, cronRunLogged, audit,
                   cronLocals>>

\* report 6. Find the cron job by name: existingJob holds the id of the row
\* found; any failure ends the logging, not the request
ReportCronJob(p) ==
    /\ pc[p] = "reportCronJob" /\ kind[p] = "report"
    /\ \E o \in StoreOutcomes :
        LET named == { r \in cron_jobs : JobName(r) = AGENT_CRON_MAP(request[p].agentId) }
        IN  CASE o = "ok" /\ Cardinality(named) = 1 ->
                    /\ existingJob' = [existingJob EXCEPT ![p] =
                                          (CHOOSE r \in named : TRUE).id]
                    /\ To(p, "reportCronRun")
              [] o = "ok" /\ Cardinality(named) # 1 ->
                    /\ existingJob' = [existingJob EXCEPT ![p] = "null"]
                    /\ Respond(p, "200")
              [] o = "error" ->
                    /\ existingJob' = [existingJob EXCEPT ![p] = "failed"]
                    /\ Respond(p, "200")
              [] o = "throw" ->
                    /\ existingJob' = [existingJob EXCEPT ![p] = "thrown"]
                    /\ Respond(p, "200")
    /\ UNCHANGED <<cron_jobs, cron_runs, nextId, now, gateway, kind, idx,
                   agentTables, request, cronRunLogged, audit, cronLocals>>

\* Determine run status: summary.toLowerCase().includes(..); the summary is
\* given by the word it holds
ReportRunStatus(summary) ==
    CASE summary = "error" -> "error"
      [] summary = "timeout" -> "timeout"
      [] OTHER -> "ok"

\* summary.substring(0, 500): the length of the stored text
Truncated(len) == IF len > MaxSummary THEN MaxSummary ELSE len

\* Date.now() - new Date(cronStartedAt).getTime(), null without cronStartedAt
ReportDuration(req, t) == IF req.cronStartedAt # 0 THEN t - req.cronStartedAt ELSE NULLINT

\* The row of the report's run insert at time t for the job found
ReportRunRow(req, jobId, t) ==
    [job_id |-> jobId,
     started_at |-> msToIso(IF req.cronStartedAt # 0 THEN req.cronStartedAt ELSE t),
     status |-> ReportRunStatus(req.summary),
     duration_ms |-> ReportDuration(req, t),
     error_message |-> NULL,
     result_summary |-> Truncated(req.summaryLen)]

\* cronRunLogged after the run insert was answered
Logged_Always(answer) == TRUE

Logged(answer) == answer = "null"

\* report 6. Create cron run record; without a summary the status cannot be
\* determined and the exception ends the logging
ReportCronRun(p) ==
    /\ pc[p] = "reportCronRun" /\ kind[p] = "report"
    /\ \E o \in StoreOutcomes :
        LET row == ReportRunRow(request[p], existingJob[p], now)
            answer == IF request[p].summary = "undefined"
                      THEN "thrown"
                      ELSE InsertAnswer(o, RunInsertAccepted(cron_runs, row))
        IN  /\ runError' = [runError EXCEPT ![p] = answer]
            /\ cronRunLogged' = [cronRunLogged EXCEPT ![p] = Logged(answer)]
            /\ IF answer = "null"
               THEN /\ cron_runs' = Append(cron_runs, row)
                    /\ To(p, "reportCronUpdate")
               ELSE /\ cron_runs' = cron_runs
                    /\ Respond(p, "200")
    /\ UNCHANGED <<cron_jobs, nextId, now, gateway, kind, idx, existingJob,
                   agentTables, request, audit,
                   dryRun, n, job, results, existingRun, jobError, input>>

\* The columns of the report's job update at time t
ReportJobUpdate(req, t) ==
    [last_run_at |-> msToIso(t),
     last_status |-> ReportRunStatus(req.summary),
     last_duration_ms |-> ReportDuration(req, t),
     updated_at |-> t]

\* report 6. Update the job's last run info (the result is not read)
ReportCronUpdate(p) ==
    /\ pc[p] = "reportCronUpdate" /\ kind[p] = "report"
    /\ \E o \in StoreOutcomes :
        /\ cron_jobs' = IF o = "ok"
                        THEN UpdateWhere(cron_jobs, "id", existingJob[p],
                                         ReportJobUpdate(request[p], now))
                        ELSE cron_jobs
        /\ Respond(p, "200")
    /\ UNCHANGED <<cron_runs, nextId, now, gateway, kind, idx, existingJob,
                   agentTables, request, cronRunLogged, audit, cronLocals>>

----------------------------------------------------------------------------
\* GET /api/system/audit

\* An issue is pushed and the integrity set
Flag(a, issue, level) == [integrity |-> level, issues |-> a.issues \cup {issue}]

\* An issue is pushed, the integrity is left as it is
Note(a, issue) == [a EXCEPT !.issues = @ \cup {issue}]

AuditStart(p) == AgentStart(p, "audit", NoRequest, "auditAgents")

\* 1. Check agents: late says whether more than FIFTEEN_MINUTES have passed
\* since the agents' heartbeats; a failed fetch gives no agents to check
AuditAgents(p) ==
    /\ pc[p] = "auditAgents" /\ kind[p] = "audit"
    /\ \E o \in StoreOutcomes, late \in BOOLEAN :
        LET stalledAgents == IF o = "ok" /\ late THEN agents ELSE {}
            fetched == IF o = "error"
                       THEN Flag(audit[p], "Failed to fetch agents", "CRITICAL")
                       ELSE audit[p]
        IN  IF o = "throw"
            THEN /\ audit' = audit
                 /\ Respond(p, "500")
            ELSE /\ audit' = [audit EXCEPT ![p] =
                        IF stalledAgents # {}
                        THEN Flag(fetched, "agents have stale heartbeats", "WARNING")
                        ELSE fetched]
                 /\ To(p, "auditHistory")
    /\ UNCHANGED <<cron_jobs, cron_runs, nextId, now, gateway, kind, idx, existingJob,
                   agentTables, request, cronRunLogged, cronLocals>>

\* order('created_at', descending).limit(k): the k rows inserted last
Recent(rows, k) ==
    { rows[i] : i \in { j \in DOMAIN rows : j > Len(rows) - k } }

\* The rows the audit asks of task_history
HistoryLimit == 20

\* 2. Check task_history (proof of agent activity)
AuditHistory(p) ==
    /\ pc[p] = "auditHistory" /\ kind[p] = "audit"
    /\ \E o \in StoreOutcomes :
        LET recentHistory == IF o = "ok" THEN Recent(task_history, HistoryLimit) ELSE {}
            recentAgentActivity ==
                { h \in recentHistory : h.action \in {"agent_wake", "agent_report"} }
            fetched == IF o = "error"
                       THEN Note(audit[p], "Failed to fetch task_history")
                       ELSE audit[p]
        IN  IF o = "throw"
            THEN /\ audit' = audit
                 /\ Respond(p, "500")
            ELSE /\ audit' = [audit EXCEPT ![p] =
                        IF recentAgentActivity = {}
                        THEN Flag(fetched, "No agent activity recorded in task_history",
                                  "CRITICAL")
                        ELSE fetched]
                 /\ To(p, "auditMemory")
    /\ UNCHANGED <<cron_jobs, cron_runs, nextId, now, gateway, kind, idx, existingJob,
                   agentTables, request, cronRunLogged, cronLocals>>

\* 3. Check agent_memory
AuditMemory(p) ==
    /\ pc[p] = "auditMemory" /\ kind[p] = "audit"
    /\ \E o \in StoreOutcomes :
        LET recentMemory == IF o = "ok" THEN Recent(agent_memory, 1) ELSE {}
            fetched == IF o = "error"
                       THEN Note(audit[p], "Failed to access agent_memory table")
                       ELSE audit[p]
        IN  IF o = "throw"
            THEN /\ audit' = audit
                 /\ Respond(p, "500")
            ELSE /\ audit' = [audit EXCEPT ![p] =
                        IF recentMemory = {}
                        THEN Flag(fetched, "No agent_memory entries found", "WARNING")
                        ELSE fetched]
                 /\ To(p, "auditTasks")
    /\ UNCHANGED <<cron_jobs, cron_runs, nextId, now, gateway, kind, idx, existingJob,
                   agentTables, request, cronRunLogged, cronLocals>>

\* 4. Check tasks, 5. Generate report
AuditTasks(p) ==
    /\ pc[p] = "auditTasks" /\ kind[p] = "audit"
    /\ \E o \in StoreOutcomes :
        CASE o = "ok" ->
                /\ audit' = audit
                /\ Respond(p, "200")
          [] o = "error" ->
                /\ audit' = [audit EXCEPT ![p] =
                                Flag(@, "Failed to fetch tasks", "CRITICAL")]
                /\ Respond(p, "200")
          [] o = "throw" ->
                /\ audit' = audit
                /\ Respond(p, "500")
    /\ UNCHANGED <<cron_jobs, cron_runs, nextId, now, gateway, kind, idx, existingJob,
                   agentTables, request, cronRunLogged, cronLocals>>

----------------------------------------------------------------------------
\* Specifications

InitWith(jobs) ==
    /\ cron_jobs = {}
    /\ cron_runs = <<>>
    /\ nextId = 1
    /\ now = 0
    /\ gateway = jobs
    /\ pc = [p \in Procs |-> "idle"]
    /\ kind = [p \in Procs |-> "none"]
    /\ dryRun = [p \in Procs |-> FALSE]
    /\ n = [p \in Procs |-> 0]
    /\ idx = [p \in Procs |-> 0]
    /\ job = [p \in Procs |-> NoJob]
    /\ results = [p \in Procs |-> ZeroResults]
    /\ existingRun = [p \in Procs |-> "none"]
    /\ existingJob = [p \in Procs |-> "none"]
    /\ runError = [p \in Procs |-> "none"]
    /\ jobError = [p \in Procs |-> "none"]
    /\ input = [p \in Procs |-> "none"]
    /\ exitCode = [p \in Procs |-> "none"]
    /\ agents = {}
    /\ tasks = { [id |-> t, status |-> "todo"] : t \in TaskIds }
    /\ task_history = <<>>
    /\ agent_memory = <<>>
    /\ request = [p \in Procs |-> NoRequest]
    /\ cronRunLogged = [p \in Procs |-> FALSE]
    /\ audit = [p \in Procs |-> NoAudit]

Init == InitWith(GatewayJobs)

\* The steps of the sync script
ScriptStep ==
    \/ \E p \in Procs : ScriptSkip(p)
    \/ \E p \in Procs : ScriptDryRun(p)
    \/ \E p \in Procs : ScriptUpsert(p)
    \/ \E p \in Procs : ScriptCheck(p)
    \/ \E p \in Procs : ScriptInsert(p)
    \/ \E p \in Procs : Return(p)

\* The sync script, one invocation after the other
NextScript ==
    \/ \E d \in BOOLEAN, len \in 0..MaxClock : AllIdle /\ ScriptStart(1, d, len)
    \/ ScriptStep

SpecScript == Init /\ [][NextScript]_vars

\* The three writers of job definitions, one invocation after the other
NextUpsert ==
    \/ \E d \in BOOLEAN, len \in 0..MaxClock : AllIdle /\ ScriptStart(1, d, len)
    \/ \E len \in 0..MaxClock : AllIdle /\ JobsStart(1, len)
    \/ \E len \in 0..MaxClock : AllIdle /\ SyncStart(1, len)
    \/ ScriptStep
    \/ \E p \in Procs : JobsUpsert(p)
    \/ \E p \in Procs : SyncCheck(p)
    \/ \E p \in Procs : SyncWrite(p)

SpecWrites == InitWith(WriteJobs) /\ [][NextUpsert]_vars
SpecUpsert == Init /\ [][NextUpsert]_vars

\* The writers of job definitions, on jobs with a delivery configuration
SpecDelivery == InitWith(DeliveryJobs) /\ [][NextUpsert]_vars

\* The writers of job definitions, also started without their input
NextFatal ==
    \/ NextUpsert
    \/ AllIdle /\ ScriptNoCredentials(1)
    \/ AllIdle /\ ScriptNoGatewayFile(1)
    \/ AllIdle /\ JobsNoArray(1)
    \/ AllIdle /\ SyncNoArray(1)

SpecFatal == InitWith(WriteJobs) /\ [][NextFatal]_vars

\* A started invocation takes its next step: every store call returns
HandlerStep ==
    \/ ScriptStep
    \/ \E p \in Procs : JobsUpsert(p)
    \/ \E p \in Procs : SyncCheck(p)
    \/ \E p \in Procs : SyncWrite(p)

\* The writers of job definitions when every store call eventually returns
SpecLive == InitWith(WriteJobs) /\ [][NextUpsert]_vars /\ WF_vars(HandlerStep)

\* The two recorders of runs, one invocation after the other
NextRuns ==
    \/ \E d \in BOOLEAN, len \in 0..MaxClock : AllIdle /\ ScriptStart(1, d, len)
    \/ AllIdle /\ RunsStart(1)
    \/ ScriptStep
    \/ \E p \in Procs : RunsCheckJob(p)
    \/ \E p \in Procs : RunsCreateJob(p)
    \/ \E p \in Procs : RunsInsertRun(p)
    \/ \E p \in Procs : RunsUpdateJob(p)

SpecRuns == Init /\ [][NextRuns]_vars

\* The recorders of runs, on runs reported with a result text
SpecSummary == InitWith(SummaryJobs) /\ [][NextRuns]_vars

\* The recorders of runs on one job that ran three times
SpecRecovery == InitWith(RecoveryJobs) /\ [][NextRuns]_vars

\* The sync script and the cron routes, one invocation after the other
Next ==
    \/ \E d \in BOOLEAN, len \in 0..MaxClock : AllIdle /\ ScriptStart(1, d, len)
    \/ \E len \in 0..MaxClock : AllIdle /\ JobsStart(1, len)
    \/ \E len \in 0..MaxClock : AllIdle /\ SyncStart(1, len)
    \/ AllIdle /\ RunsStart(1)
    \/ ScriptStep
    \/ \E p \in Procs : JobsUpsert(p)
    \/ \E p \in Procs : SyncCheck(p)
    \/ \E p \in Procs : SyncWrite(p)
    \/ \E p \in Procs : RunsCheckJob(p)
    \/ \E p \in Procs : RunsCreateJob(p)
    \/ \E p \in Procs : RunsInsertRun(p)
    \/ \E p \in Procs : RunsUpdateJob(p)

Spec == Init /\ [][Next]_vars

\* All the handlers on one job and its runs
SpecHistory == InitWith(HistoryJobs) /\ [][Next]_vars

\* The sync script on a Gateway that reports every status
SpecStatus == InitWith(StatusJobs) /\ [][NextScript]_vars

\* The writers of job definitions on a Gateway that reports every status
SpecStatusWrites == InitWith(StatusJobs) /\ [][NextUpsert]_vars

\* Runs reported with and without a start time and a status
ReportedRuns == JobsOf({"J1"}, {0, 1}, {"ok", "undefined"})

\* The steps of the agent routes but the report's cron run logging
AgentStep ==
    \/ \E p \in Procs : PatchUpdate(p)
    \/ \E p \in Procs : WakeAgent(p)
    \/ \E p \in Procs : WakeLoad(p)
    \/ \E p \in Procs : WakeLog(p)
    \/ \E p \in Procs : ReportAgent(p)
    \/ \E p \in Procs : ReportMemory(p)
    \/ \E p \in Procs : ReportLog(p)
    \/ \E p \in Procs : ReportTask(p)
    \/ \E p \in Procs : ReportTaskLog(p)
    \/ \E p \in Procs : ReportCronJob(p)
    \/ \E p \in Procs : Return(p)

\* The agent routes, one request after the other
NextAgents ==
    \/ \E req \in PatchRequests : AllIdle /\ PatchStart(1, req)
    \/ \E req \in PatchRequests : AllIdle /\ PatchBadRequest(1, req)
    \/ \E req \in WakeRequests : AllIdle /\ WakeStart(1, req)
    \/ \E req \in WakeRequests : AllIdle /\ WakeBadRequest(1, req)
    \/ \E req \in TaskReports : AllIdle /\ ReportStart(1, req)
    \/ \E req \in TaskReports : AllIdle /\ ReportBadRequest(1, req)
    \/ AgentStep

SpecAgents == InitWith(ReportedRuns) /\ [][NextAgents]_vars

\* The routes that validate their request: the agent routes and
\* POST /api/cron/runs
NextValidate ==
    \/ NextAgents
    \/ AllIdle /\ RunsStart(1)
    \/ AllIdle /\ RunsBadRequest(1)
    \/ \E p \in Procs : RunsCheckJob(p)
    \/ \E p \in Procs : RunsCreateJob(p)
    \/ \E p \in Procs : RunsInsertRun(p)
    \/ \E p \in Procs : RunsUpdateJob(p)

\* Runs of a job that no agent's reports are logged for
ValidatedRuns == JobsOf({"J2"}, {0, 1}, {"ok", "undefined"})

SpecValidate == InitWith(ValidatedRuns) /\ [][NextValidate]_vars

\* The one job of the Gateway that an agent's reports are logged for
ReportJobs == JobsOf({"J1"}, {1}, {"ok"})

\* Reports of agents with and without a cron job, after POST /api/cron/jobs
\* has stored the job
NextReport ==
    \/ \E len \in 0..1 : AllIdle /\ JobsStart(1, len)
    \/ \E req \in CronReports : AllIdle /\ ReportStart(1, req)
    \/ \E p \in Procs : JobsUpsert(p)
    \/ \E p \in Procs : ReportAgent(p)
    \/ \E p \in Procs : ReportMemory(p)
    \/ \E p \in Procs : ReportLog(p)
    \/ \E p \in Procs : ReportCronJob(p)
    \/ \E p \in Procs : ReportCronRun(p)
    \/ \E p \in Procs : ReportCronUpdate(p)
    \/ \E p \in Procs : Return(p)

SpecReport == InitWith(ReportJobs) /\ [][NextReport]_vars

\* GET /api/system/audit between the wakes and the reports of the agents
NextAudit ==
    \/ \E req \in WakeRequests : AllIdle /\ WakeStart(1, req)
    \/ \E req \in PlainReports : AllIdle /\ ReportStart(1, req)
    \/ AllIdle /\ AuditStart(1)
    \/ \E p \in Procs : WakeAgent(p)
    \/ \E p \in Procs : WakeLoad(p)
    \/ \E p \in Procs : WakeLog(p)
    \/ \E p \in Procs : ReportAgent(p)
    \/ \E p \in Procs : ReportMemory(p)
    \/ \E p \in Procs : ReportLog(p)
    \/ \E p \in Procs : ReportCronJob(p)
    \/ \E p \in Procs : AuditAgents(p)
    \/ \E p \in Procs : AuditHistory(p)
    \/ \E p \in Procs : AuditMemory(p)
    \/ \E p \in Procs : AuditTasks(p)
    \/ \E p \in Procs : Return(p)

SpecAudit == InitWith(ReportJobs) /\ [][NextAudit]_vars

\* Two invocations of the sync script that may overlap
NextOverlap ==
    \/ \E len \in 0..MaxClock : ScriptStart(1, FALSE, len)
    \/ \E len \in 0..MaxClock : pc[1] # "idle" /\ ScriptStart(2, FALSE, len)
    \/ \E p \in Procs : ScriptUpsert(p)
    \/ \E p \in Procs : ScriptCheck(p)
    \/ \E p \in Procs : ScriptInsert(p)
    \/ \E p \in Procs : Return(p)

SpecOverlap == InitWith(OverlapJobs) /\ [][NextOverlap]_vars

\* Two invocations that write job definitions, the script or
\* POST /api/cron/sync, and may overlap
NextOverlapWrites ==
    \/ \E len \in 0..MaxClock : ScriptStart(1, FALSE, len)
    \/ \E len \in 0..MaxClock : SyncStart(1, len)
    \/ \E len \in 0..MaxClock : pc[1] # "idle" /\ ScriptStart(2, FALSE, len)
    \/ \E len \in 0..MaxClock : pc[1] # "idle" /\ SyncStart(2, len)
    \/ \E p \in Procs : ScriptUpsert(p)
    \/ \E p \in Procs : ScriptCheck(p)
    \/ \E p \in Procs : ScriptInsert(p)
    \/ \E p \in Procs : SyncCheck(p)
    \/ \E p \in Procs : SyncWrite(p)
    \/ \E p \in Procs : Return(p)

SpecOverlapWrites == InitWith(OverlapJobs) /\ [][NextOverlapWrites]_vars

----------------------------------------------------------------------------
\* Properties

Strip(r) == [f \in DOMAIN r \ {"updated_at"} |-> r[f]]
StripAll(table) == { Strip(r) : r \in table }

Max(S) == CHOOSE x \in S : \A y \in S : y <= x

JobRunIndexes(id) == { i \in DOMAIN cron_runs : cron_runs[i].job_id = id }

\* C1: after any sequence of non-overlapping live or dry invocations of the
\* sync script, whatever the batches and whatever the store calls return,
\* cron_runs never holds two rows with the same job_id and started_at.
C1_OneRunPerJobAndStart ==
    \A a, b \in DOMAIN cron_runs :
        (cron_runs[a].job_id = cron_runs[b].job_id
            /\ cron_runs[a].started_at = cron_runs[b].started_at) => a = b

\* C1 witness: a later invocation re-reported a stored (job, start time),
\* its existence query failed, the insert was attempted and the store
\* refused it.
C1_Witness ==
    \E p \in Procs :
        /\ kind[p] = "script" /\ pc[p] = "done" /\ now >= 2
        /\ existingRun[p] = "failed" /\ runError[p] = "duplicate key"
        /\ Len(cron_runs) = 1

\* C2: when the script finds that the run of the job it processes is already
\* stored, it inserts no run, counts the job as skipped and does not count a
\* created run.
C2_ExistingRunCountedSkipped ==
    [][\A p \in Procs :
        (kind[p] = "script" /\ pc[p] = "check" /\ pc'[p] # "check"
            /\ existingRun'[p] = "found")
        => /\ cron_runs' = cron_runs
           /\ results'[p].runsCreated = results[p].runsCreated
           /\ results'[p].skipped = results[p].skipped + 1]_vars

\* C3: when two invocations of the script overlap, in every interleaving of
\* their store calls each (job, start time) has at most one run.
C3_OneRunPerPairWhenOverlapping ==
    \A j \in JobIds, t \in RunTimesMs :
        Cardinality(RunsOf(cron_runs, j, msToIso(t))) <= 1

\* C3 witness: both invocations looked the same (job, start time) up and found
\* nothing; one created the run, the other's insert was refused.
C3_Witness ==
    /\ pc[1] = "done" /\ pc[2] = "done"
    /\ n[1] = 1 /\ n[2] = 1
    /\ existingRun[1] = "null" /\ existingRun[2] = "null"
    /\ { runError[1], runError[2] } = { "null", "duplicate key" }
    /\ Len(cron_runs) = 1

\* What a second call with identical input leaves: one row for the key,
\* no new row, and no column changed but updated_at
SecondCallSame(after1, after2, col, val) ==
    /\ Cardinality({ r \in after1 : r[col] = val }) = 1
    /\ Cardinality({ r \in after2 : r[col] = val }) = 1
    /\ Cardinality(after2) = Cardinality(after1)
    /\ StripAll(after2) = StripAll(after1)

C5_FailedUpsertIsolated ==
    \A p \in Procs :
        (pc[p] = "done" /\ kind[p] \in {"script", "jobs"})
        => /\ idx[p] = n[p]
           /\ kind[p] = "jobs" => results[p].synced + results[p].errors = n[p]

\* C6: when POST /api/cron/runs has recorded a run for a job that was in
\* the store and answers 200, the job's consecutive_errors is the count
\* stored before plus one if the run's status is error; for any other
\* status it is 0 whenever the job row was written.
C6_ConsecutiveErrorsTracked ==
    [][\A p \in Procs :
        (kind[p] = "runs" /\ pc[p] = "updateJob" /\ exitCode'[p] = "200"
            /\ existingJob[p] = "found")
        => \A r \in cron_jobs : r.id = job[p].id =>
              \E r2 \in cron_jobs' :
                 /\ r2.id = r.id
                 /\ IF job[p].lastStatus = "error"
                    THEN r2.consecutive_errors = r.consecutive_errors + 1
                    ELSE cron_jobs' # cron_jobs => r2.consecutive_errors = 0]_vars

\* C7: the script attempts no run insert after a run-existence query that
\* failed.
C7_NoInsertAfterFailedCheck ==
    \A p \in Procs :
        (kind[p] = "script" /\ pc[p] = "insert") => existingRun[p] # "failed"

\* C8: at the end of a live sync every job of the batch has been counted in
\* exactly one of the outcome counters (the script: jobsUpdated, skipped,
\* errors; POST /api/cron/sync: created, updated, and no job uncounted), and
\* POST /api/cron/sync counts a job as synced exactly when it is counted as
\* created or updated.
C8_EveryJobCountedOnce ==
    \A p \in Procs :
        (pc[p] = "done" /\ exitCode[p] = ExitOk(kind[p]) /\ ~dryRun[p])
        => /\ kind[p] = "script" =>
                results[p].jobsUpdated + results[p].skipped + results[p].errors = n[p]
           /\ kind[p] = "sync" =>
                /\ results[p].created + results[p].updated = n[p]
                /\ results[p].synced = results[p].created + results[p].updated

\* C9: whenever no invocation is running, the summary columns of every job
\* row are those of the run recorded last for the job, and a job without a
\* stored run has no last run.
C9_SummaryIsLatestRun ==
    AllIdle =>
        \A r \in cron_jobs :
            IF JobRunIndexes(r.id) = {}
            THEN r.last_run_at = NULL
            ELSE LET run == cron_runs[Max(JobRunIndexes(r.id))]
                 IN  /\ r.last_run_at = run.started_at
                     /\ r.last_status = run.status
                     /\ r.last_duration_ms = run.duration_ms
                     /\ r.last_error = run.error_message

\* The Status Mapper's table
MappedStatus ==
    [s \in GatewayStatuses |->
        IF s \in {"ok", "error", "running", "timeout"} THEN s ELSE "pending"]

\* C10: mapStatus is total; ok, error, running and timeout map to themselves
\* and every other status, the absent one included, to pending: the status
\* the script writes with the job and with the run is the mapped one.
C10_MapStatusTable ==
    /\ \A s \in GatewayStatuses : mapStatus(s) = MappedStatus[s]
    /\ \A p \in Procs :
          (kind[p] = "script" /\ pc[p] \in {"check", "insert"})
          => /\ ScriptRunRow(job[p]).status = MappedStatus[job[p].lastStatus]
             /\ \A r \in cron_jobs :
                   r.id = job[p].id => r.last_status = MappedStatus[job[p].lastStatus]

\* C10 witness: the script has written a job whose status is none of the
\* four, and wrote pending.
C10_Witness ==
    \E p \in Procs :
        /\ kind[p] = "script" /\ pc[p] = "check"
        /\ job[p].lastStatus = "garbage"
        /\ \E r \in cron_jobs : r.id = job[p].id /\ r.last_status = "pending"

\* The first live invocation of the script, over one job, whose run insert
\* the store accepted
FirstSyncDone(p) ==
    /\ kind[p] = "script" /\ pc[p] = "done" /\ ~dryRun[p]
    /\ n[p] = 1 /\ now = 1
    /\ runError[p] = "null"

\* C11: a live sync of a one-job batch against the empty store, the store
\* accepting the calls, leaves one job row and one run row for that job with
\* the job's status and start time (for a job reported ok with 500 ms: status
\* ok, duration 500) and the counters jobsUpdated 1, runsCreated 1, skipped 0,
\* errors 0.
C11_FirstSync ==
    \A p \in Procs :
        FirstSyncDone(p) =>
            /\ results[p].jobsUpdated = 1 /\ results[p].runsCreated = 1
            /\ results[p].skipped = 0 /\ results[p].errors = 0
            /\ Cardinality(cron_jobs) = 1 /\ Len(cron_runs) = 1
            /\ \A r \in cron_jobs :
                  /\ r.id \in JobIds
                  /\ cron_runs[1].job_id = r.id
                  /\ cron_runs[1].started_at = r.last_run_at
                  /\ cron_runs[1].status = r.last_status
                  /\ r.last_status \in {"ok", "error"}
                  /\ r.last_status = "ok" =>
                        /\ cron_runs[1].duration_ms = 500
                        /\ r.last_duration_ms = 500
                        /\ r.last_error = NULL

\* C11 witness: the first sync of one ok job is done and its run is stored.
C11_Witness ==
    \E p \in Procs :
        /\ FirstSyncDone(p)
        /\ existingRun[p] = "null"
        /\ \E r \in cron_jobs : r.id = "J1" /\ r.last_status = "ok"
        /\ Len(cron_runs) = 1 /\ cron_runs[1].status = "ok"

\* The value a candidate job has for every summary and definition column,
\* null for what the job does not carry
Candidate(j, status) ==
    [last_run_at |-> IF j.lastRunAtMs # 0 THEN msToIso(j.lastRunAtMs) ELSE NULL,
     last_status |-> status,
     last_duration_ms |-> NumOrNull(j.lastDurationMs),
     last_error |-> StrOrNull(j.lastError),
     consecutive_errors |-> j.consecutiveErrors,
     delivery |-> StrOrNull(j.delivery)]

\* Every row of the key is, after the write, the candidate under the same id
FullyReplaced(before, after, col, val, cand) ==
    \A r \in before : r[col] = val =>
        \E r2 \in after :
            /\ r2.id = r.id
            /\ \A f \in DOMAIN cand : r2[f] = cand[f]

\* C12: a job write that succeeds on a job whose row exists leaves the row
\* with the candidate's value in every column, null where the candidate
\* carries none (delivery, last error), under the same id: the script's
\* upsert, the update of POST /api/cron/sync, the upsert of
\* POST /api/cron/jobs.
C12_FullReplace ==
    [][\A p \in Procs :
        /\ (kind[p] = "script" /\ pc[p] = "loop" /\ pc'[p] = "check")
           => FullyReplaced(cron_jobs, cron_jobs', "id", job'[p].id,
                            Candidate(job'[p], mapStatus(job'[p].lastStatus)))
        /\ (kind[p] = "sync" /\ pc[p] = "write" /\ existingJob[p] = "found"
                /\ jobError'[p] = "null")
           => FullyReplaced(cron_jobs, cron_jobs', "gateway_id", job[p].id,
                            Candidate(job[p], StrOrNull(job[p].lastStatus)))
        /\ (kind[p] = "jobs" /\ pc[p] = "loop" /\ jobError'[p] = "null")
           => \E j \in gateway, r2 \in cron_jobs' :
                 /\ r2.id = j.id /\ r2.updated_at = now
                 /\ \A f \in DOMAIN Candidate(j, NULL) \ {"last_status"} :
                       r2[f] = Candidate(j, NULL)[f]
                 /\ r2.last_status = StrOrNull(j.lastStatus)]_vars

\* The cron_jobs rows that stand for the Gateway job g: the script and
\* POST /api/cron/jobs store the Gateway's id in id, POST /api/cron/sync in
\* gateway_id
RowsOfGatewayJob(g) == { r \in cron_jobs : r.id = g \/ r.gateway_id = g }

\* C13: whatever the script, POST /api/cron/jobs and POST /api/cron/sync
\* have synced, no Gateway job has two rows in cron_jobs.
C13_ExternalIdUnique ==
    \A g \in JobIds : Cardinality(RowsOfGatewayJob(g)) <= 1

\* C14: when invocations of the script or of POST /api/cron/sync overlap,
\* the store refuses no job write whose lookup was answered, and each job
\* keeps one row under its key.
C14_OverlappingWritesSucceed ==
    /\ \A p \in Procs :
          (kind[p] \in {"script", "sync"} /\ existingJob[p] # "failed")
          => jobError[p] # "duplicate key"
    /\ \A g \in JobIds :
          /\ Cardinality({ r \in cron_jobs : r.id = g }) <= 1
          /\ Cardinality({ r \in cron_jobs : r.gateway_id = g }) <= 1

\* Invocation p takes this step
Moved(p) == pc'[p] # pc[p] \/ idx'[p] # idx[p]

\* Invocation p's store call of this step failed: the store answered the
\* job write, the run-existence query, the job lookup or the run insert
\* with an error, or the call threw
StoreCallFailed(p) ==
    /\ Moved(p)
    /\ \/ /\ pc[p] = "loop" /\ kind[p] \in {"script", "jobs"} /\ ~dryRun[p]
          /\ results'[p].skipped = results[p].skipped
          /\ jobError'[p] \in {"failed", "thrown"}
       \/ /\ pc[p] = "write"
          /\ jobError'[p] \in {"failed", "duplicate key", "thrown"}
       \/ /\ pc[p] = "check"
          /\ existingRun'[p] \in {"failed", "thrown"}
       \/ /\ pc[p] = "loop" /\ kind[p] = "sync"
          /\ existingJob'[p] \in {"failed", "thrown"}
       \/ /\ pc[p] = "insert"
          /\ runError'[p] \in {"failed", "duplicate key", "thrown"}

\* C15: every failed store call of the script, POST /api/cron/jobs or
\* POST /api/cron/sync is counted in the errors counter or logged in the
\* step that meets it.
C15_NoSilentFailure ==
    [][\A p \in Procs :
        (kind[p] \in {"script", "jobs", "sync"} /\ StoreCallFailed(p))
        => \/ results'[p].errors = results[p].errors + 1
           \/ results'[p].logged = results[p].logged + 1]_vars

\* C16: no step of the script or of a cron route changes or removes a stored
\* run, and none removes a job row or changes its id or gateway_id: the
\* stored runs and the stored job ids only grow.
C16_HistoryOnlyGrows ==
    [][/\ Len(cron_runs') >= Len(cron_runs)
       /\ \A i \in DOMAIN cron_runs : cron_runs'[i] = cron_runs[i]
       /\ \A r \in cron_jobs :
             \E r2 \in cron_jobs' : r2.id = r.id /\ r2.gateway_id = r.gateway_id]_vars

\* C16 witness: a job row with a stored run has been written again, by a
\* later invocation and with another status than the run's.
C16_Witness ==
    /\ Len(cron_runs) >= 1
    /\ \E r \in cron_jobs :
          /\ r.id = cron_runs[1].job_id
          /\ r.updated_at >= 2
          /\ r.last_status # cron_runs[1].status

\* C17: an invocation started without credentials or without its batch (no
\* Gateway file, no jobs array) ends at once with exit code 1 (the script)
\* or status 400 (POST /api/cron/jobs, POST /api/cron/sync), has processed no
\* job, and no step taken while it is there writes to the store.
C17_FatalInput ==
    [][\A p \in Procs :
        input'[p] \in {"no credentials", "no gateway file", "no jobs array"}
        => /\ pc'[p] = "done"
           /\ exitCode'[p] = IF kind'[p] = "script" THEN "exit 1" ELSE "400"
           /\ idx'[p] = 0 /\ results'[p] = ZeroResults
           /\ cron_jobs' = cron_jobs /\ cron_runs' = cron_runs]_vars

\* C17 witness: after a sync that stored jobs and runs, the script was
\* started without credentials.
C17_Witness ==
    \E p \in Procs :
        /\ input[p] = "no credentials" /\ kind[p] = "script"
        /\ cron_jobs # {} /\ Len(cron_runs) >= 1

\* C18: every stored Run has a result summary of at most MaxSummary (500)
\* characters; a Run stored without a summary (null) counts as within it.
C18_SummaryBounded ==
    \A i \in DOMAIN cron_runs : cron_runs[i].result_summary <= MaxSummary

\* C19: within one invocation of the sync script the position in the batch
\* advances one element at a time and only when the store operation that
\* ends the current job has returned; a job's operations come in the order
\* upsert (the only step that writes cron_jobs), existence check, run insert
\* (the only step that writes cron_runs), and the job in flight stays the
\* same from its upsert to its last operation.
C19_JobsInOrder ==
    [][\A p \in Procs :
        (kind[p] = "script" /\ pc[p] \in {"loop", "check", "insert"} /\ Moved(p))
        => /\ pc[p] = "loop" => pc'[p] \in {"check", "loop", "done"}
           /\ pc[p] = "check" => pc'[p] \in {"insert", "loop", "done"}
           /\ pc[p] = "insert" => pc'[p] \in {"loop", "done"}
           /\ idx'[p] \in {idx[p], idx[p] + 1}
           /\ idx'[p] = idx[p] + 1 <=> pc'[p] \in {"loop", "done"}
           /\ pc'[p] \in {"loop", "done"} => job'[p] = NoJob
           /\ pc[p] \in {"check", "insert"} /\ pc'[p] = "insert" => job'[p] = job[p]
           /\ pc'[p] = "check" => job'[p] \in gateway
           /\ cron_jobs' # cron_jobs => pc[p] = "loop"
           /\ cron_runs' # cron_runs => pc[p] = "insert"]_vars

\* C19 witness: the script is about to insert the run of its second job
\* after having inserted the run of its first.
C19_Witness ==
    \E p \in Procs :
        /\ kind[p] = "script" /\ pc[p] = "insert" /\ idx[p] = 1
        /\ results[p].runsCreated = 1 /\ results[p].jobsUpdated = 2
        /\ Len(cron_runs) >= 1 /\ cron_runs[Len(cron_runs)].job_id # job[p].id

\* C20: in the sync script, a job whose upsert returned an error or threw
\* gets no existence check and no Run insert and is counted as an error:
\* the step goes straight on to the next job with errors one higher and
\* cron_runs as it was; the check and the insert are only ever reached with
\* the job's upsert answered without error.
C20_RunOnlyAfterUpsert ==
    [][\A p \in Procs :
        /\ (/\ kind[p] = "script" /\ pc[p] = "loop" /\ ~dryRun[p] /\ Moved(p)
            /\ results'[p].skipped = results[p].skipped
            /\ jobError'[p] # "null")
           => /\ pc'[p] \in {"loop", "done"}
              /\ results'[p].errors = results[p].errors + 1
              /\ results'[p].runsCreated = results[p].runsCreated
              /\ cron_runs' = cron_runs
        /\ (kind'[p] = "script" /\ pc'[p] \in {"check", "insert"})
           => jobError'[p] = "null"
        /\ (kind[p] = "script" /\ cron_runs' # cron_runs)
           => jobError[p] = "null" /\ pc[p] = "insert"]_vars

\* C20 witness: a one-job sync whose upsert failed is over with one error
\* counted and no Run stored.
C20_Witness ==
    \E p \in Procs :
        /\ kind[p] = "script" /\ pc[p] = "done" /\ ~dryRun[p] /\ n[p] = 1
        /\ jobError[p] \in {"failed", "thrown"}
        /\ results[p].errors = 1 /\ results[p].runsCreated = 0
        /\ cron_jobs = {} /\ cron_runs = << >>

\* C21: when every store call eventually returns, a started sync invocation
\* (script or POST /api/cron/sync) terminates, and it terminates having
\* visited every job of its batch: no store failure ends the loop early.
C21_TerminatesVisitingAll ==
    /\ \A p \in Procs : (pc[p] \notin {"idle", "done"}) ~> (pc[p] = "done")
    /\ [](\A p \in Procs :
            (pc[p] = "done" /\ kind[p] \in {"script", "sync"} /\ input[p] = "batch")
            => idx[p] = n[p])

\* The summary columns of a job row and the same columns of a run
SummaryOf(r) ==
    [started_at |-> r.last_run_at, status |-> r.last_status,
     duration_ms |-> r.last_duration_ms, error_message |-> r.last_error]
RunSummary(run) ==
    [started_at |-> run.started_at, status |-> run.status,
     duration_ms |-> run.duration_ms, error_message |-> run.error_message]

\* The runs of job id recorded before the last row of cron_runs
EarlierRuns(id) == { i \in JobRunIndexes(id) : i < Len(cron_runs) }

\* The recording of an earlier run of job id was interrupted: that run is
\* stored and the job's summary is still that of another run
Interrupted(id) ==
    /\ EarlierRuns(id) # {}
    /\ \E r \in cron_jobs :
           r.id = id /\ r.last_run_at # cron_runs[Max(EarlierRuns(id))].started_at

\* C22: after a recording that stopped between the run insert and the
\* write of the job's summary, a cycle for the job that the handler ends
\* with success and during which the store did not fail leaves the job's
\* summary equal to the run the cycle handled, stored exactly once:
\* POST /api/cron/runs with the job's next run, the script with a run that
\* is stored as the Gateway reports it or that it inserts.
C22_RecoveryOnNextCycle ==
    [][\A p \in Procs :
        /\ (/\ kind[p] = "runs" /\ pc[p] = "updateJob" /\ exitCode'[p] = "200"
            /\ jobError'[p] # "failed" /\ Interrupted(job[p].id))
           => /\ \E r \in cron_jobs' :
                    /\ r.id = job[p].id
                    /\ SummaryOf(r) = RunSummary(cron_runs'[Len(cron_runs')])
              /\ Cardinality(RunsOf(cron_runs', job[p].id, msToIso(job[p].lastRunAtMs))) = 1
        /\ (/\ kind[p] = "script" /\ Moved(p)
            /\ \/ pc[p] = "check" /\ existingRun'[p] = "found"
               \/ pc[p] = "insert" /\ runError'[p] = "null")
           => LET same == RunsOf(cron_runs', job[p].id, msToIso(job[p].lastRunAtMs))
              IN  /\ Cardinality(same) = 1
                  /\ \A i \in same :
                        cron_runs'[i] = ScriptRunRow(job[p])
                        => \E r \in cron_jobs' :
                              /\ r.id = job[p].id
                              /\ SummaryOf(r) = RunSummary(cron_runs'[i])]_vars

\* C23: the step by which the script counts a job without a last-run time
\* as skipped leaves cron_jobs and cron_runs as they were and goes on to the
\* next job with no other counter changed; the script takes no job without
\* a last-run time to its upsert, so no row it writes is a never-run job.
C23_SkippedJobTouchesNothing ==
    [][\A p \in Procs :
        /\ (kind[p] = "script" /\ results'[p].skipped = results[p].skipped + 1)
           => /\ pc[p] = "loop" /\ pc'[p] \in {"loop", "done"}
              /\ idx'[p] = idx[p] + 1
              /\ cron_jobs' = cron_jobs /\ cron_runs' = cron_runs
              /\ results'[p] = Bump(results[p], "skipped")
              /\ existingRun'[p] = existingRun[p] /\ runError'[p] = runError[p]
              /\ jobError'[p] = jobError[p]
        /\ (kind'[p] = "script" /\ pc'[p] \in {"check", "insert"})
           => job'[p].lastRunAtMs # 0
        /\ \A r \in cron_jobs' : r.last_run_at # NULL]_vars

\* C23 witness: a live sync of a never-run job and a job with a run is
\* over: one skipped, one stored.
C23_Witness ==
    \E p \in Procs :
        /\ kind[p] = "script" /\ pc[p] = "done" /\ ~dryRun[p] /\ n[p] = 2
        /\ results[p].skipped = 1 /\ results[p].jobsUpdated = 1
        /\ Cardinality(cron_jobs) = 1 /\ Len(cron_runs) = 1

\* The run-status enum of the store
RunStatus == {"pending", "running", "ok", "error", "timeout"}

\* C24: whatever status the Gateway supplied, every status a sync has
\* written is a member of the run-status enum: the status of every Run and
\* the last status of every job (a job without one holds null).
C24_StoredStatusInEnum ==
    /\ \A i \in DOMAIN cron_runs : cron_runs[i].status \in RunStatus
    /\ \A r \in cron_jobs : r.last_status \in RunStatus \cup {NULL}

\* C25: a --dry-run invocation of the script leaves the store as it is: each
\* of its steps goes straight to the next job without an upsert, a query or
\* an insert (no store answer is recorded) and changes no counter but
\* skipped; jobsUpdated, runsCreated and errors stay 0, skipped counts only
\* visited jobs, and the invocation ends with exit code 0.
C25_DryRunLeavesStore ==
    [][\A p \in Procs :
        (kind'[p] = "script" /\ dryRun'[p])
        => /\ results'[p].jobsUpdated = 0 /\ results'[p].runsCreated = 0
           /\ results'[p].errors = 0 /\ results'[p].logged = 0
           /\ results'[p].skipped <= idx'[p]
           /\ pc'[p] \in {"loop", "done"}
           /\ pc'[p] = "done" => exitCode'[p] = "exit 0" /\ idx'[p] = n[p]
           /\ jobError'[p] = "none" /\ existingRun'[p] = "none" /\ runError'[p] = "none"
           /\ cron_jobs' = cron_jobs /\ cron_runs' = cron_runs /\ nextId' = nextId]_vars

\* C25 witness: after a live sync stored a job and its run, a dry run over a
\* never-run job and a job with a run is over.
C25_Witness ==
    \E p \in Procs :
        /\ kind[p] = "script" /\ dryRun[p] /\ pc[p] = "done" /\ n[p] = 2
        /\ results[p].skipped = 1
        /\ Cardinality(cron_jobs) = 1 /\ Len(cron_runs) = 1

\* The jobs of its batch invocation p has visited, the one in flight included
Visited(p) == idx[p] + IF pc[p] \in {"check", "insert", "write"} THEN 1 ELSE 0

CounterNames == {"jobsUpdated", "runsCreated", "skipped", "errors", "synced",
                 "created", "updated"}

\* C26: in every state of an invocation, the script has runsCreated <=
\* jobsUpdated and jobsUpdated + skipped <= the jobs visited so far, and
\* POST /api/cron/sync has synced = created + updated <= the jobs visited
\* so far; no step of a running invocation decreases a counter.
C26_CounterBounds ==
    [][\A p \in Procs :
        /\ kind'[p] = "script"
           => /\ results'[p].runsCreated <= results'[p].jobsUpdated
              /\ results'[p].jobsUpdated + results'[p].skipped <= Visited(p)'
        /\ kind'[p] = "sync"
           => /\ results'[p].synced = results'[p].created + results'[p].updated
              /\ results'[p].synced <= Visited(p)'
        /\ pc[p] \notin {"idle", "done"}
           => \A f \in CounterNames : results'[p][f] >= results[p][f]]_vars

\* C26 witness: the script has skipped one job, stored one with its run and
\* updated a third that is still in flight: both bounds are met exactly.
C26_Witness ==
    \E p \in Procs :
        /\ kind[p] = "script" /\ pc[p] = "check" /\ idx[p] = 2
        /\ results[p].jobsUpdated = 2 /\ results[p].skipped = 1
        /\ results[p].runsCreated = 1

\* POST /api/cron/sync has created one job and updated it
SyncCountedBoth ==
    \E p \in Procs :
        /\ kind[p] = "sync" /\ pc[p] = "done"
        /\ results[p].created = 1 /\ results[p].updated = 1 /\ results[p].synced = 2

\* Every table of the store
allTables == <<cron_jobs, cron_runs, agents, tasks, task_history, agent_memory>>

\* The request invocation p starts on lacks a required field or, for PATCH,
\* carries a status outside the valid set
Malformed(k, req) ==
    \/ k = "wake" /\ (req.agentId = "" \/ req.agentName = "")
    \/ k = "report" /\ req.agentId = ""
    \/ k = "patch" /\ (req.agentId = "" \/ req.status = ""
                        \/ req.status \notin {"idle", "working", "offline", "error"})

RunsRefused ==
    \E p \in Procs :
        /\ kind[p] = "runs" /\ exitCode[p] = "400" /\ Len(cron_runs) >= 1

C29_CronLoggingNeverFails ==
    [][\A p \in Procs :
         (kind'[p] = "report" /\ pc[p] # "done") =>
            /\ pc[p] = "idle" => ~cronRunLogged'[p]
            /\ pc[p] \in {"reportCronJob", "reportCronRun", "reportCronUpdate"}
               => /\ pc'[p] \in {"reportCronRun", "reportCronUpdate", "done"}
                  /\ pc'[p] = "done" => exitCode'[p] = "200"
            /\ pc[p] = "reportCronRun"
               => (cronRunLogged'[p] <=> Len(cron_runs') = Len(cron_runs) + 1)
            /\ pc[p] \notin {"idle", "reportCronRun"}
               => cron_runs' = cron_runs /\ cronRunLogged'[p] = cronRunLogged[p]
            /\ cron_jobs' # cron_jobs
               => pc[p] = "reportCronUpdate" /\ cronRunLogged[p]]_vars

\* C29 witness: a report is answered 200 with cronRunLogged false after its
\* run insert failed, while the run of an earlier report is stored and the
\* job carries that run's status.
C29_Witness ==
    \E p \in Procs :
        /\ kind[p] = "report" /\ pc[p] = "done" /\ exitCode[p] = "200"
        /\ runError[p] = "failed" /\ ~cronRunLogged[p]
        /\ Len(cron_runs) = 1
        /\ cron_runs[1].status = "error"
        /\ \E r \in cron_jobs : r.id = cron_runs[1].job_id /\ r.last_status = "error"

\* A report answered 200 with cronRunLogged true and its run stored
ReportLogged ==
    \E p \in Procs :
        /\ kind[p] = "report" /\ pc[p] = "done" /\ exitCode[p] = "200"
        /\ cronRunLogged[p] /\ runError[p] = "null"
        /\ Len(cron_runs) = 1 /\ cron_runs[1].status = "timeout"

\* The issues that make the integrity CRITICAL
CriticalIssues ==
    {"Failed to fetch agents", "No agent activity recorded in task_history",
     "Failed to fetch tasks"}

\* The audit of process p has answered with its report
Audited(p) == kind[p] = "audit" /\ pc[p] = "done" /\ exitCode[p] = "200"

\* C30: the report of GET /api/system/audit never understates: when the
\* agents fetch failed, no agent activity was found or the tasks fetch
\* failed, the integrity reported is CRITICAL, and the integrity is OK only
\* when no issue is reported.
C30_IntegrityNotUnderstated ==
    \A p \in Procs :
        Audited(p) =>
            /\ audit[p].issues \cap CriticalIssues # {} => audit[p].integrity = "CRITICAL"
            /\ audit[p].integrity = "OK" => audit[p].issues = {}

\* The integrity reported is OK only when no issue is reported
OkOnlyWithoutIssues ==
    \A p \in Procs : Audited(p) /\ audit[p].integrity = "OK" => audit[p].issues = {}

\* An audit reports OK on agents that woke and reported
AuditedOk ==
    \E p \in Procs : Audited(p) /\ audit[p].integrity = "OK" /\ agents # {}

====
